---- MODULE Spec2Model ----
(***************************************************************************)
(* A model of randomart.py: the random expression-tree generator           *)
(* (generate), the per-node evaluation rules (eval), the colour mapper     *)
(* (rgb) and the incremental renderer (Art.redraw / Art.draw).             *)
(*                                                                         *)
(* Numbers that the program holds as floats are modelled as exact          *)
(* rationals <<numerator, denominator>> with a positive denominator.       *)
(* A value returned by random.uniform never influences control flow, so    *)
(* it is kept symbolic: a node parameter is the position, in the random    *)
(* sequence, of the draw that produced it.                                 *)
(***************************************************************************)
EXTENDS Integers, Sequences, FiniteSets, TLC

VARIABLES
    budget,      \* generate: the budget of the outermost call
    stack,       \* generate: the call stack, innermost call last
    result,      \* generate: the tree returned by the outermost call
    tape,        \* random: the outcomes drawn so far from the fixed sequence
    pos,         \* random: the position of the next draw in the sequence
    run,         \* 1: first generation, 2: regeneration from the same sequence
    first,       \* the tree returned by run 1
    calls,       \* the number of generate calls made so far in this run
    etree,       \* eval: the expression being evaluated
    ex, ey,      \* eval: the coordinates it is evaluated at
    eout,        \* eval: the colour returned, <<>> before the call
    rin,         \* rgb: the colour handed to rgb
    rout,        \* rgb: the string returned, <<>> before the call
    art,         \* Art: the expression displayed, named by the redraw that made it
    d,           \* Art: current square size
    y,           \* Art: current row
    draw_alarm,  \* Art: the id of the last scheduled draw, NoAlarm for None
    pending,     \* Tk: the callbacks scheduled with after and not yet run
    items,       \* Canvas: the number of rectangles on the canvas
    clicks,      \* the number of times 'Again!' was pressed
    ran,         \* the last draw step executed
    cancelled    \* the number of scheduled callbacks that were cancelled

genVars == <<budget, stack, result, tape, pos, run, first, calls>>
evalVars == <<etree, ex, ey, eout>>
rgbVars == <<rin, rout>>
artVars == <<art, d, y, draw_alarm, pending, items, clicks, ran, cancelled>>

vars == <<genVars, evalVars, rgbVars, artVars>>

\* The largest budget handed to the outermost generate call.
MaxBudget == 2

\* The largest budget that is generated a second time from the same sequence.
RegenBudget == 1

------------------------------------------------------------------------------
(* The expression classes: lines 43-182.                                    *)

operators == <<"VariableX", "VariableY", "Constant", "Sum", "Product", "Mod",
               "Sin", "Tent", "Well", "Level", "Mix">>

\* The class attribute `arity`.
arity(op) ==
    CASE op \in {"VariableX", "VariableY", "Constant"} -> 0
      [] op \in {"Sin", "Tent", "Well"} -> 1
      [] op \in {"Sum", "Product", "Mod"} -> 2
      [] op \in {"Level", "Mix"} -> 3

\* The number of random.uniform draws made by __init__ of each class:
\* Constant draws its three channels, Sin its phase and frequency, Level its
\* threshold.
ninit(op) ==
    CASE op = "Constant" -> 3
      [] op = "Sin" -> 2
      [] op = "Level" -> 1
      [] OTHER -> 0

operators0 == SelectSeq(operators, LAMBDA op : arity(op) = 0)
operators1 == SelectSeq(operators, LAMBDA op : arity(op) > 0)

\* The value standing for "no tree".
None == [op |-> "None", args |-> <<>>, par |-> <<>>, k |-> 0]

\* op(*args): the object holds the subexpressions it was given, and the
\* parameters its __init__ drew, which are the draws at positions p, p+1, ...
Construct(op, args, p) ==
    [op |-> op, args |-> args, par |-> [n \in 1..ninit(op) |-> p + n - 1]]

------------------------------------------------------------------------------
(* The random module, driven by one fixed sequence.                         *)

\* The marker a random.uniform draw leaves on the tape.
Uniform == -1

\* The outcomes the draw at position p may have when it asks for an integer
\* below n: what the sequence holds there, when the sequence is already
\* known up to p, and any integer below n otherwise.
seeded(p, n) ==
    IF p <= Len(tape)
    THEN {IF tape[p] < 0 THEN 0 ELSE tape[p] % n}
    ELSE 0 .. (n - 1)

\* A choice made from a source the fixed sequence does not govern.
choice_unseeded(p, n) == 0 .. (n - 1)

\* random.choice(seq): an index below len(seq).
choice(p, n) == seeded(p, n)

\* random.randrange(k): an integer in [0, k).
randrange(p, k) == seeded(p, k)

\* The tape after the draws `outs` were made from position pos on.
Drawn(outs) ==
    IF pos + Len(outs) - 1 <= Len(tape)
    THEN tape
    ELSE SubSeq(tape, 1, pos - 1) \o outs

uniforms(n) == [j \in 1..n |-> Uniform]

------------------------------------------------------------------------------
(* generate: lines 184-200.                                                 *)

RECURSIVE insert(_, _)
insert(x, s) ==
    IF s = <<>> THEN <<x>>
    ELSE IF x <= Head(s) THEN <<x>> \o s
    ELSE <<Head(s)>> \o insert(x, Tail(s))

RECURSIVE sorted(_)
\* sorted(list): ascending.
sorted(s) == IF s = <<>> THEN <<>> ELSE insert(Head(s), sorted(Tail(s)))

\* The frame of a call generate(k) that has not started yet.
Call(k) ==
    [k |-> k, op |-> "?", cuts |-> <<>>, ci |-> 1, i |-> 0, args |-> <<>>,
     handed |-> <<>>, pc |-> "start"]

top == stack[Len(stack)]

\* The object a call generate(k) returned, with k noted on it.
Built(node, k) ==
    [op |-> node.op, args |-> node.args, par |-> node.par, k |-> k]

RECURSIVE Return(_, _, _)
\* `node` is returned to the innermost call of the stack stk, the random
\* sequence standing at p. A caller that was generating its last
\* subexpression (line 199) goes on to line 200, return op(*args), whose
\* __init__ draws its parameters, and returns in turn.
Return(stk, node, p) ==
    IF stk = <<>> THEN [stack |-> <<>>, result |-> node, pos |-> p]
    ELSE LET caller == stk[Len(stk)]
             args   == Append(caller.args, node)
             rest   == SubSeq(stk, 1, Len(stk) - 1)
         IN  IF caller.pc = "build"
             THEN Return(rest,
                         Built(Construct(caller.op, args, p), caller.k),
                         p + ninit(caller.op))
             ELSE [stack  |-> rest \o <<[caller EXCEPT !.args = args]>>,
                   result |-> None,
                   pos    |-> p]

\* One cut point per subexpression: range(op.arity).
ncuts_all(op) == arity(op)

\* The number of cut points drawn for an operator: range(op.arity-1).
ncuts(op) == arity(op) - 1

\* The cut point itself as the budget: generate(j).
loopBudget_absolute(j, i) == j

\* The budget of a subexpression generated inside the loop: generate(j - i).
loopBudget(j, i) == j - i

\* The node's own cost is not charged: generate(k - i).
lastBudget_uncharged(k, i) == k - i

\* The budget of the last subexpression: generate(k - 1 - i).
lastBudget(k, i) == k - 1 - i

\* The cut points in the order they were drawn.
cutOrder_unsorted(s) == s

\* The cut points in the order the loop visits them.
cutOrder(s) == sorted(s)

\* Lines 186-189: k <= 0, generate a leaf and return it.
GenLeaf ==
    /\ UNCHANGED <<evalVars, rgbVars, artVars>>
    /\ stack # <<>>
    /\ top.pc = "start"
    /\ top.k <= 0
    /\ \E c \in choice(pos, Len(operators0)) :
         LET op   == operators0[c + 1]
             node == Built(Construct(op, <<>>, pos + 1), top.k)
         IN  \E r \in {Return(SubSeq(stack, 1, Len(stack) - 1), node,
                              pos + 1 + ninit(op))} :
               /\ stack' = r.stack
               /\ result' = r.result
               /\ tape' = Drawn(<<c>> \o uniforms(r.pos - pos - 1))
               /\ pos' = r.pos
    /\ UNCHANGED <<budget, run, first, calls>>

\* Lines 190-196: k > 0, pick an operator and draw and sort the cut points.
GenPick ==
    /\ UNCHANGED <<evalVars, rgbVars, artVars>>
    /\ stack # <<>>
    /\ top.pc = "start"
    /\ top.k > 0
    /\ \E c \in choice(pos, Len(operators1)) :
         LET op == operators1[c + 1]
         IN  \E js \in [1..ncuts(op) -> 0..(top.k - 1)] :
               /\ \A l \in 1..ncuts(op) : js[l] \in randrange(pos + l, top.k)
               /\ stack' = [stack EXCEPT ![Len(stack)] =
                              [@ EXCEPT !.op = op, !.cuts = cutOrder(js),
                                        !.pc = "loop"]]
               /\ tape' = Drawn(<<c>> \o js)
               /\ pos' = pos + 1 + ncuts(op)
    /\ UNCHANGED <<budget, result, run, first, calls>>

\* Lines 196-198: one iteration of the loop, up to the recursive call.
GenLoop ==
    /\ UNCHANGED <<evalVars, rgbVars, artVars>>
    /\ stack # <<>>
    /\ top.pc = "loop"
    /\ top.ci <= Len(top.cuts)
    /\ LET j == top.cuts[top.ci]
           b == loopBudget(j, top.i)
       IN  stack' = [stack EXCEPT ![Len(stack)] =
                       [@ EXCEPT !.i = j, !.ci = @ + 1,
                                 !.handed = Append(@, b)]]
                    \o <<Call(b)>>
    /\ calls' = calls + 1
    /\ UNCHANGED <<budget, result, tape, pos, run, first>>

\* Line 199: the call that generates the last subexpression.
GenLast ==
    /\ UNCHANGED <<evalVars, rgbVars, artVars>>
    /\ stack # <<>>
    /\ top.pc = "loop"
    /\ top.ci > Len(top.cuts)
    /\ LET b == lastBudget(top.k, top.i)
       IN  stack' = [stack EXCEPT ![Len(stack)] =
                       [@ EXCEPT !.pc = "build", !.handed = Append(@, b)]]
                    \o <<Call(b)>>
    /\ calls' = calls + 1
    /\ UNCHANGED <<budget, result, tape, pos, run, first>>

\* The same budget is generated again with the random sequence rewound to
\* its start.
Regenerate ==
    /\ UNCHANGED <<evalVars, rgbVars, artVars>>
    /\ stack = <<>>
    /\ run = 1
    /\ budget <= RegenBudget
    /\ result # None
    /\ run' = 2
    /\ first' = result
    /\ result' = None
    /\ pos' = 1
    /\ stack' = <<Call(budget)>>
    /\ calls' = 1
    /\ UNCHANGED <<budget, tape>>

GenInit ==
    /\ budget \in 0..MaxBudget
    /\ stack = <<Call(budget)>>
    /\ result = None
    /\ tape = <<>>
    /\ pos = 1
    /\ run = 1
    /\ first = None
    /\ calls = 1

GenIdle ==
    /\ budget = 0
    /\ stack = <<>>
    /\ result = None
    /\ tape = <<>>
    /\ pos = 1
    /\ run = 1
    /\ first = None
    /\ calls = 0

------------------------------------------------------------------------------
(* Exact rational arithmetic for the values the program holds as floats.    *)

Abs(n) == IF n < 0 THEN -n ELSE n

RECURSIVE Gcd(_, _)
Gcd(a, b) == IF b = 0 THEN a ELSE Gcd(b, a % b)

\* The rational n/m in lowest terms with a positive denominator (m # 0).
Q(n, m) ==
    LET sgn == IF m < 0 THEN -1 ELSE 1
        g   == Gcd(Abs(n), Abs(m))
    IN  <<(sgn * n) \div g, (sgn * m) \div g>>

whole(n) == <<n, 1>>
add(a, b) == Q(a[1] * b[2] + b[1] * a[2], a[2] * b[2])
sub(a, b) == Q(a[1] * b[2] - b[1] * a[2], a[2] * b[2])
mul(a, b) == Q(a[1] * b[1], a[2] * b[2])
lt(a, b) == a[1] * b[2] < b[1] * a[2]
le(a, b) == a[1] * b[2] <= b[1] * a[2]
\* The largest integer <= a.
floor(a) == a[1] \div a[2]
\* int(a): the integer part of a, rounded toward zero.
int(a) == IF a[1] >= 0 THEN a[1] \div a[2] ELSE -((-a[1]) \div a[2])

Zero == whole(0)
Half == Q(1, 2)

------------------------------------------------------------------------------
(* Utility functions and eval methods: lines 11-172.                        *)

\* average(c1, c2, w), lines 11-18.
average(c1, c2, w) ==
    [ch \in 1..3 |-> add(mul(w, c1[ch]), mul(sub(whole(1), w), c2[ch]))]

\* tent(x), lines 31-33.
tent(x) == sub(whole(1), mul(whole(2), <<Abs(x[1]), x[2]>>))

\* x % b raises ZeroDivisionError exactly when b is 0.
raises(b) == b[1] = 0

\* a % b on floats, b # 0: a - b * floor(a / b), which has the sign of b.
remainder(a, b) == sub(a, mul(b, whole(floor(Q(a[1] * b[2], a[2] * b[1])))))

\* Only the channel whose % raised is replaced.
evalMod_perChannel(c1, c2) ==
    [ch \in 1..3 |->
        IF raises(c2[ch]) THEN whole(0) ELSE remainder(c1[ch], c2[ch])]

\* Mod.eval, lines 96-105: the three remainders are computed inside one try
\* whose except clause returns (0,0,0).
evalMod(c1, c2) ==
    IF \E ch \in 1..3 : raises(c2[ch])
    THEN <<whole(0), whole(0), whole(0)>>
    ELSE [ch \in 1..3 |-> remainder(c1[ch], c2[ch])]

\* Product.eval, lines 81-87.
evalProduct(c1, c2) == [ch \in 1..3 |-> mul(c1[ch], c2[ch])]

\* Sum.eval, lines 71-72.
evalSum(c1, c2) == average(c1, c2, Half)

\* Tent.eval, lines 123-125.
evalTent(c) == [ch \in 1..3 |-> tent(c[ch])]

\* The selector channel is compared with <=.
evalLevel_inclusive(treshold, l, c1, c2) ==
    [ch \in 1..3 |-> IF le(l[ch], treshold) THEN c1[ch] ELSE c2[ch]]

\* Level.eval, lines 151-158.
evalLevel(treshold, l, c1, c2) ==
    [ch \in 1..3 |-> IF lt(l[ch], treshold) THEN c1[ch] ELSE c2[ch]]

\* The weight derived from the first subexpression is applied.
evalMix_weighted(cw, c1, c2) ==
    LET w == mul(Half, add(cw[1], whole(1)))
    IN  average(c1, c2, w)

\* Mix.eval, lines 168-172: w is computed and average is called without it.
evalMix(cw, c1, c2) ==
    LET w == mul(Half, add(cw[1], whole(1)))
    IN  average(c1, c2, Half)

RECURSIVE eval(_, _, _)
\* e.eval(u, v) for the classes whose values are rational. A node evaluated
\* here holds in par the values its __init__ drew: Constant its colour,
\* Level its threshold.
eval(e, u, v) ==
    CASE e.op = "VariableX" -> <<u, u, u>>
      [] e.op = "VariableY" -> <<v, v, v>>
      [] e.op = "Constant" -> e.par
      [] e.op = "Sum" -> evalSum(eval(e.args[1], u, v), eval(e.args[2], u, v))
      [] e.op = "Product" ->
           evalProduct(eval(e.args[1], u, v), eval(e.args[2], u, v))
      [] e.op = "Mod" -> evalMod(eval(e.args[1], u, v), eval(e.args[2], u, v))
      [] e.op = "Tent" -> evalTent(eval(e.args[1], u, v))
      [] e.op = "Level" ->
           evalLevel(e.par[1], eval(e.args[1], u, v), eval(e.args[2], u, v),
                     eval(e.args[3], u, v))
      [] e.op = "Mix" ->
           evalMix(eval(e.args[1], u, v), eval(e.args[2], u, v),
                   eval(e.args[3], u, v))

\* Colours random.uniform(0,1) can give a Constant.
ConstantSamples ==
    { <<whole(0), whole(0), whole(0)>>,
      <<whole(0), Q(1, 2), Q(1, 2)>>,
      <<Q(1, 4), Q(1, 2), Q(3, 4)>> }

\* Thresholds random.uniform(-1,1) can give a Level.
TresholdSamples == { Q(-1, 2), whole(0), Q(1, 2) }

\* Coordinates handed to eval.
CoordSamples == { Q(-1, 2), whole(0), Q(1, 3) }

Node(op, args, par) == [op |-> op, args |-> args, par |-> par]

Leaves ==
    { Node("VariableX", <<>>, <<>>), Node("VariableY", <<>>, <<>>) }
      \cup { Node("Constant", <<>>, c) : c \in ConstantSamples }

\* The expressions evaluated: every leaf, and every rational class over
\* leaves.
EvalTrees ==
    Leaves
      \cup { Node("Tent", <<a>>, <<>>) : a \in Leaves }
      \cup { Node(op, <<a, b>>, <<>>) :
               op \in {"Sum", "Product", "Mod"}, a \in Leaves, b \in Leaves }
      \cup { Node("Mix", <<a, b, c>>, <<>>) :
               a \in Leaves, b \in Leaves, c \in Leaves }
      \cup { Node("Level", <<a, b, c>>, <<t>>) :
               a \in Leaves, b \in Leaves, c \in Leaves, t \in TresholdSamples }

\* art.eval(u, v), line 232.
EvalCall ==
    /\ UNCHANGED <<genVars, rgbVars, artVars>>
    /\ eout = <<>>
    /\ eout' = eval(etree, ex, ey)
    /\ UNCHANGED <<etree, ex, ey>>

\* The renderer moves on to another coordinate of the same expression.
EvalAt ==
    /\ UNCHANGED <<genVars, rgbVars, artVars>>
    /\ eout # <<>>
    /\ \E u \in CoordSamples, v \in CoordSamples :
         /\ <<u, v>> # <<ex, ey>>
         /\ ex' = u
         /\ ey' = v
    /\ eout' = <<>>
    /\ UNCHANGED etree

EvalInit ==
    /\ etree \in EvalTrees
    /\ ex \in CoordSamples
    /\ ey \in CoordSamples
    /\ eout = <<>>

EvalIdle == etree = None /\ ex = Zero /\ ey = Zero /\ eout = <<>>

------------------------------------------------------------------------------
(* rgb: lines 20-25.                                                        *)

HexDigits == <<"0", "1", "2", "3", "4", "5", "6", "7", "8", "9",
               "a", "b", "c", "d", "e", "f">>

RECURSIVE hex(_)
\* The hexadecimal digits of n >= 0.
hex(n) ==
    IF n < 16 THEN <<HexDigits[n + 1]>>
    ELSE hex(n \div 16) \o <<HexDigits[(n % 16) + 1]>>

\* '%02x' % n: the digits, behind a minus sign when n < 0, padded with zeros
\* to two characters.
format02x(n) ==
    LET body == IF n < 0 THEN <<"-">> \o hex(-n) ELSE hex(n)
    IN  IF Len(body) < 2 THEN <<"0">> \o body ELSE body

max(a, b) == IF a >= b THEN a ELSE b
min(a, b) == IF a <= b THEN a ELSE b

\* The channel without the lower clamp: min(255, int(128 * (v + 1))).
byte_unclamped(v) == min(255, int(mul(whole(128), add(v, whole(1)))))

\* max(0, min(255, int(128 * (v + 1)))), lines 22-24.
byte(v) == max(0, min(255, int(mul(whole(128), add(v, whole(1))))))

\* rgb(r, g, b), lines 20-25.
rgb(r, g, b) ==
    <<"#">> \o format02x(byte(r)) \o format02x(byte(g)) \o format02x(byte(b))

\* Channel values handed to rgb: inside, on the edge of and outside [-1, 1].
RgbSamples ==
    { whole(-5), Q(-257, 256), whole(-1), Q(-255, 256), Q(-1, 2), whole(0),
      Q(1, 5), Q(2, 5), Q(3, 5), Q(255, 256), whole(1), whole(5) }

\* fill=rgb(r,g,b), line 237.
RgbCall ==
    /\ UNCHANGED <<genVars, evalVars, artVars>>
    /\ rout = <<>>
    /\ rout' = rgb(rin[1], rin[2], rin[3])
    /\ UNCHANGED rin

RgbInit ==
    /\ rin \in RgbSamples \X RgbSamples \X RgbSamples
    /\ rout = <<>>

RgbIdle == rin = <<Zero, Zero, Zero>> /\ rout = <<>>

------------------------------------------------------------------------------
(* Art: lines 202-241.                                                      *)

\* size=256, line 206.
Size == 256

\* self.d = 64, line 220.
FirstSquare == 64

\* The number of times 'Again!' is pressed.
MaxClicks == 2

\* None, as the value of draw_alarm.
NoAlarm == 0

\* canvas.after(1, self.draw) returns an id no scheduled callback has.
after_id(pend) ==
    CHOOSE id \in 1..(Cardinality(pend) + 1) :
       /\ \A p \in pend : p.id # id
       /\ \A smaller \in 1..(id - 1) : \E p \in pend : p.id = smaller

\* after_cancel does nothing.
after_cancel_ignored(pend, id) == pend

\* canvas.after_cancel(id), line 217.
after_cancel(pend, id) == {p \in pend : p.id # id}

\* len(range(0, size, d)): the rectangles of one row.
row(sq) == (Size + sq - 1) \div sq

\* draw(), lines 224-241, run for the expression `tree` with the callbacks
\* `pend` scheduled, as the callback scheduled under `sched` (the expression
\* that was displayed when it was scheduled).
Draw(tree, d0, y0, pend, n, sched) ==
    LET y1 == IF y0 >= Size THEN 0 ELSE y0
        d1 == IF y0 >= Size THEN d0 \div 4 ELSE d0
    IN  /\ d' = d1
        /\ ran' = [sched |-> sched, tree |-> tree]
        /\ IF d1 >= 1
           THEN /\ y' = y1 + d1
                /\ items' = n + row(d1)
                /\ draw_alarm' = after_id(pend)
                /\ pending' = pend \cup {[id |-> after_id(pend), art |-> tree]}
           ELSE /\ y' = y1
                /\ items' = n
                /\ draw_alarm' = NoAlarm
                /\ pending' = pend

\* redraw(), lines 216-222: the command of the 'Again!' button.
Redraw ==
    /\ UNCHANGED <<genVars, evalVars, rgbVars>>
    /\ clicks < MaxClicks
    /\ clicks' = clicks + 1
    /\ art' = art + 1
    /\ LET pend == IF draw_alarm # NoAlarm
                   THEN after_cancel(pending, draw_alarm) ELSE pending
       IN  /\ Draw(art + 1, FirstSquare, 0, pend, 0, art + 1)
           /\ cancelled' = cancelled + Cardinality(pending \ pend)

\* Tk runs a scheduled callback: self.draw.
Timer ==
    /\ UNCHANGED <<genVars, evalVars, rgbVars>>
    /\ \E p \in pending :
         Draw(art, d, y, pending \ {p}, items, p.art)
    /\ UNCHANGED <<art, clicks, cancelled>>

\* Art.__init__, lines 206-214: draw_alarm is None and redraw() has run once.
ArtInit ==
    /\ art = 1
    /\ d = FirstSquare
    /\ y = FirstSquare
    /\ draw_alarm = 1
    /\ pending = {[id |-> 1, art |-> 1]}
    /\ items = row(FirstSquare)
    /\ clicks = 0
    /\ ran = [sched |-> 1, tree |-> 1]
    /\ cancelled = 0

ArtIdle ==
    /\ art = 0
    /\ d = 0
    /\ y = 0
    /\ draw_alarm = NoAlarm
    /\ pending = {}
    /\ items = 0
    /\ clicks = 0
    /\ ran = [sched |-> 0, tree |-> 0]
    /\ cancelled = 0

------------------------------------------------------------------------------
(* The specifications.                                                      *)

\* Generation, and regeneration from the same random sequence. A call of
\* generate runs to completion, so its steps are weakly fair.
Init == GenInit /\ EvalIdle /\ RgbIdle /\ ArtIdle

Next == GenLeaf \/ GenPick \/ GenLoop \/ GenLast \/ Regenerate

Spec == Init /\ [][Next]_vars /\ WF_vars(Next)

\* Evaluation of one expression at several coordinates.
InitEval == EvalInit /\ GenIdle /\ RgbIdle /\ ArtIdle

NextEval == EvalCall \/ EvalAt

SpecEval == InitEval /\ [][NextEval]_vars

\* One call of rgb.
InitRgb == RgbInit /\ GenIdle /\ EvalIdle /\ ArtIdle

NextRgb == RgbCall

SpecRgb == InitRgb /\ [][NextRgb]_vars

\* The window: the timer callbacks and the 'Again!' button.
InitArt == ArtInit /\ GenIdle /\ EvalIdle /\ RgbIdle

NextArt == Redraw \/ Timer

SpecArt == InitArt /\ [][NextArt]_vars

------------------------------------------------------------------------------
(* Properties of generate.                                                  *)

RECURSIVE WellFormed(_)
\* Every node of t has as many children as the arity of its class.
WellFormed(t) ==
    /\ Len(t.args) = arity(t.op)
    /\ \A n \in 1..Len(t.args) : WellFormed(t.args[n])

RECURSIVE NonLeaves(_), NonLeavesIn(_)
\* The number of nodes of t whose class has arity > 0.
NonLeaves(t) == (IF arity(t.op) > 0 THEN 1 ELSE 0) + NonLeavesIn(t.args)
NonLeavesIn(ts) ==
    IF ts = <<>> THEN 0 ELSE NonLeaves(Head(ts)) + NonLeavesIn(Tail(ts))

RECURSIVE Depth(_)
Depth(t) ==
    LET deepest[n \in 0..Len(t.args)] ==
            IF n = 0 THEN 0
            ELSE IF Depth(t.args[n]) > deepest[n - 1]
                 THEN Depth(t.args[n]) ELSE deepest[n - 1]
    IN  1 + deepest[Len(t.args)]

RECURSIVE SumSeq(_)
SumSeq(s) == IF s = <<>> THEN 0 ELSE Head(s) + SumSeq(Tail(s))

Finished == stack = <<>> /\ result # None

\* A node built by a call with budget k: a childless arity-0 variant when
\* k <= 0, a variant of arity 1, 2 or 3 with that many children otherwise.
BuiltFor(t) ==
    IF t.k <= 0
    THEN t.op \in {"VariableX", "VariableY", "Constant"} /\ t.args = <<>>
    ELSE arity(t.op) \in 1..3 /\ Len(t.args) = arity(t.op)

RECURSIVE AllBuiltFor(_)
\* BuiltFor holds of every node of t.
AllBuiltFor(t) ==
    BuiltFor(t) /\ \A n \in 1..Len(t.args) : AllBuiltFor(t.args[n])

\* C1: generate terminates. Every call made by generate(k), k > 0, receives a
\* budget strictly smaller than k; a call with budget <= 0 makes no call; so
\* the stack is never deeper than budget + 1, at most 3 * budget + 1 calls are
\* made (no class has more than three subexpressions), and the innermost
\* call is always at a step it can take: a choice from a non-empty list, or
\* the loop over its cut points.
C1_Terminates ==
    /\ \A n \in 2..Len(stack) : stack[n].k < stack[n - 1].k
    /\ \A n \in 1..Len(stack) :
         stack[n].k <= 0 =>
           n = Len(stack) /\ stack[n].pc = "start" /\ stack[n].handed = <<>>
    /\ Len(stack) <= budget + 1
    /\ calls <= 3 * budget + 1
    /\ stack # <<>> =>
         \/ /\ top.pc = "start" /\ top.k <= 0
            /\ choice(pos, Len(operators0)) # {}
         \/ /\ top.pc = "start" /\ top.k > 0
            /\ choice(pos, Len(operators1)) # {}
            /\ randrange(pos + 1, top.k) # {}
         \/ top.pc = "loop"

\* A finished generation of the largest budget whose tree is three levels deep.
C1_Witness == Finished /\ budget = MaxBudget /\ Depth(result) >= 3

\* C2: in the returned tree every node has exactly as many children as the
\* arity of its class; a node built with budget <= 0 is VariableX, VariableY
\* or Constant without children, one built with budget > 0 has arity 1..3.
C2_ArityRespected ==
    /\ \A n \in 1..Len(stack) : \A m \in 1..Len(stack[n].args) :
         /\ BuiltFor(stack[n].args[m])
         /\ stack[n].args[m].k = stack[n].handed[m]
    /\ result # None =>
         /\ WellFormed(result)
         /\ AllBuiltFor(result)
         /\ result.k = budget

\* A returned tree whose root has three subexpressions, one of them composite.
C2_Witness ==
    /\ Finished
    /\ arity(result.op) = 3
    /\ \E n \in 1..3 : arity(result.args[n].op) > 0

RECURSIVE NoneNegative(_)
\* No node of t was built with a negative budget, and the nodes built with
\* budget 0 are leaves.
NoneNegative(t) ==
    /\ t.k >= 0
    /\ t.k = 0 => arity(t.op) = 0
    /\ \A n \in 1..Len(t.args) : NoneNegative(t.args[n])

RECURSIVE BudgetsOf(_)
\* The sum of the budgets the trees ts were built with.
BudgetsOf(ts) == IF ts = <<>> THEN 0 ELSE Head(ts).k + BudgetsOf(Tail(ts))

RECURSIVE Conserves(_)
\* In every composite node of t the budgets of the subexpressions are not
\* negative and add up to one less than the node's budget.
Conserves(t) ==
    /\ arity(t.op) > 0 => BudgetsOf(t.args) = t.k - 1
    /\ \A n \in 1..Len(t.args) : t.args[n].k >= 0 /\ Conserves(t.args[n])

\* C10: the budgets a call with budget k > 0 hands to its subexpressions are
\* non-negative and sum to k - 1; the returned tree has exactly `budget`
\* nodes of arity > 0.
C10_BudgetConserved ==
    /\ \A n \in 1..Len(stack) :
         /\ \A m \in 1..Len(stack[n].handed) : stack[n].handed[m] >= 0
         /\ stack[n].pc = "build" =>
              /\ Len(stack[n].handed) = arity(stack[n].op)
              /\ SumSeq(stack[n].handed) = stack[n].k - 1
    /\ result # None =>
         /\ Conserves(result)
         /\ NonLeaves(result) = budget

\* A call with budget 2 and three subexpressions has handed out all budgets,
\* the middle one positive.
C10_Witness ==
    \E n \in 1..Len(stack) :
       /\ stack[n].pc = "build"
       /\ stack[n].k = 2
       /\ Len(stack[n].handed) = 3
       /\ stack[n].handed[2] = 1

------------------------------------------------------------------------------
(* Properties of eval, rgb and Art.                                         *)

\* The largest quotient looked for when a remainder is recognised.
MaxQuotient == 4

Evaluated(cls) == etree.op = cls /\ eout # <<>>

\* What the subexpression n of the evaluated expression returns.
sub_out(n) == eval(etree.args[n], ex, ey)

\* r is the remainder of a by b # 0: a - b * q for an integer q, and either 0
\* or of the sign of b and smaller than b in magnitude.
IsRemainder(r, a, b) ==
    /\ \E q \in -MaxQuotient..MaxQuotient : r = sub(a, mul(b, whole(q)))
    /\ lt(Zero, b) => le(Zero, r) /\ lt(r, b)
    /\ lt(b, Zero) => lt(b, r) /\ le(r, Zero)

\* C3: Mod.eval returns (0,0,0) for the whole triple whenever a channel of the
\* second subexpression is 0, also in the channels whose own denominator is not
\* 0, and the channel-wise remainder otherwise.
C3_ModFallback ==
    Evaluated("Mod") =>
       IF \E ch \in 1..3 : sub_out(2)[ch] = Zero
       THEN eout = <<Zero, Zero, Zero>>
       ELSE \A ch \in 1..3 :
              IsRemainder(eout[ch], sub_out(1)[ch], sub_out(2)[ch])

\* Mod was evaluated where one denominator channel is 0 and another channel
\* has a non-zero remainder of its own.
C3_Witness ==
    /\ Evaluated("Mod")
    /\ \E ch \in 1..3 : sub_out(2)[ch] = Zero
    /\ \E ch \in 1..3 :
         /\ sub_out(2)[ch] # Zero
         /\ remainder(sub_out(1)[ch], sub_out(2)[ch]) # Zero

\* The value of a hexadecimal digit, -1 for any other character.
DigitValue(c) ==
    IF \E n \in 1..16 : HexDigits[n] = c
    THEN (CHOOSE n \in 1..16 : HexDigits[n] = c) - 1
    ELSE -1

\* The three channel values a string "#rrggbb" holds.
Channels(str) ==
    [ch \in 1..3 |-> 16 * DigitValue(str[2 * ch]) + DigitValue(str[2 * ch + 1])]

\* clamp(0, 255, floor(128 * (v + 1))).
Clamped(v) ==
    LET f == floor(mul(whole(128), add(v, whole(1))))
    IN  IF f < 0 THEN 0 ELSE IF f > 255 THEN 255 ELSE f

\* C4: rgb maps each channel v to clamp(0, 255, floor(128 * (v + 1))), for
\* v < -1 with a negative non-integral product too; so a channel is 0 for
\* v <= -1, 255 for v >= 1, and does not decrease as v grows.
C4_ClampedFloor ==
    rout # <<>> =>
       /\ Len(rout) = 7
       /\ rout[1] = "#"
       /\ \A n \in 2..7 : DigitValue(rout[n]) >= 0
       /\ \A ch \in 1..3 :
            /\ Channels(rout)[ch] = Clamped(rin[ch])
            /\ le(rin[ch], whole(-1)) => Channels(rout)[ch] = 0
            /\ le(whole(1), rin[ch]) => Channels(rout)[ch] = 255
       /\ \A a \in 1..3, b \in 1..3 :
            le(rin[a], rin[b]) => Channels(rout)[a] <= Channels(rout)[b]

\* rgb was called with -1 - 1/256 (the product is -0.5), -5 and 5.
C4_Witness ==
    /\ rout # <<>>
    /\ rin = <<Q(-257, 256), whole(-5), whole(5)>>
    /\ int(mul(whole(128), add(rin[1], whole(1))))
         # floor(mul(whole(128), add(rin[1], whole(1))))

\* C6: Mix.eval returns the channel-wise 0.5/0.5 average of its second and
\* third subexpressions, whatever the first (weight) subexpression returns.
C6_MixUnweighted ==
    Evaluated("Mix") =>
       /\ \A ch \in 1..3 :
            mul(whole(2), eout[ch]) = add(sub_out(2)[ch], sub_out(3)[ch])
       /\ \A w \in Leaves :
            eval([etree EXCEPT !.args[1] = w], ex, ey) = eout

\* Mix was evaluated with a weight other than 0.5 and different colours.
C6_Witness ==
    /\ Evaluated("Mix")
    /\ sub_out(1)[1] # Zero
    /\ \A ch \in 1..3 : sub_out(2)[ch] # sub_out(3)[ch]

\* C8: Level.eval selects per channel: the second subexpression's channel when
\* the first's channel is strictly below the node's threshold, the third's
\* otherwise, also when the channel equals the threshold; the threshold is the
\* one the node holds.
C8_LevelPerChannel ==
    Evaluated("Level") =>
       \A ch \in 1..3 :
          /\ lt(sub_out(1)[ch], etree.par[1]) => eout[ch] = sub_out(2)[ch]
          /\ ~lt(sub_out(1)[ch], etree.par[1]) => eout[ch] = sub_out(3)[ch]
          /\ sub_out(1)[ch] = etree.par[1] => eout[ch] = sub_out(3)[ch]

\* Level was evaluated with one selector channel below the threshold and one
\* equal to it, where the two branches differ.
C8_Witness ==
    /\ Evaluated("Level")
    /\ \E ch \in 1..3 : lt(sub_out(1)[ch], etree.par[1])
    /\ \E ch \in 1..3 : sub_out(1)[ch] = etree.par[1]
    /\ \A ch \in 1..3 : sub_out(2)[ch] # sub_out(3)[ch]

\* C9: at most one draw callback is pending, it is the one draw_alarm names
\* and it was scheduled for the expression now displayed; every draw step
\* executed was scheduled for, and evaluated, the expression of the most
\* recent redraw; and a redraw leaves the new expression with d = 64, the
\* first row drawn and no callback of an earlier expression.
C9_InFlightDiscarded ==
    /\ [](/\ Cardinality(pending) <= 1
          /\ \A p \in pending : p.id = draw_alarm /\ p.art = art
          /\ ran.sched = ran.tree
          /\ ran.tree = art)
    /\ [][clicks' # clicks =>
            /\ art' # art
            /\ d' = FirstSquare
            /\ y' = FirstSquare
            /\ items' = row(FirstSquare)
            /\ \A p \in pending' : p.art = art']_vars

\* A redraw cancelled a pending callback, and draw steps of the new
\* expression have since run down to a finer square.
C9_Witness == cancelled >= 1 /\ d < FirstSquare /\ d >= 1 /\ y > 0

====
